---- MODULE Spec2Model ----
(***************************************************************************)
(* A model of two units of RLlib:                                          *)
(*   - DQNRainbowRLModule (rllib/algorithms/dqn/dqn_rainbow_rl_module.py): *)
(*     setup() and the input/output spec methods;                          *)
(*   - BatchIndividualItems.__call__                                       *)
(*     (rllib/connectors/common/batch_individual_items.py).                *)
(* Spec is the connector's state machine, SpecModule the RL module's.      *)
(***************************************************************************)
EXTENDS Integers, Sequences, FiniteSets, TLC

VARIABLES
    data,            \* the connector's `data` argument (mutated in place, returned)
    in_data,         \* history: `data` as it was when __call__ was entered
    shared_data,     \* the connector's `shared_data` argument
    rl_module,       \* the connector's `rl_module` argument
    is_multi_agent,  \* isinstance(episodes[0], MultiAgentEpisode)
    err,             \* "none" before the call, then "ok" or the exception raised
    config,          \* DQNRainbowRLModule.config.model_config_dict
    attrs,           \* attributes set on the DQNRainbowRLModule instance
    frozen,          \* components on which setup() assigned trainable = False
    ret              \* the last spec method called and what it returned

vars == <<data, in_data, shared_data, rl_module, is_multi_agent, err,
          config, attrs, frozen, ret>>

connectorVars == <<data, in_data, shared_data, rl_module, is_multi_agent, err>>
moduleVars == <<config, attrs, frozen, ret>>

----------------------------------------------------------------------------
(* Bounds of the model. *)

\* num_atoms ranges over 1..MaxAtoms
MaxAtoms == 4
\* episode ids are 1..MaxEps
MaxEps == 2
\* an episode holds 1..MaxLen items per column
MaxLen == 2

----------------------------------------------------------------------------
(* Column names and ids. *)

ATOMS == "atoms"
QF_LOGITS == "qf_logits"
QF_PROBS == "qf_probs"
QF_TARGET_NEXT_PREDS == "qf_target_next_preds"
QF_TARGET_NEXT_PROBS == "qf_target_next_probs"
QF_PREDS == "qf_preds"
OBS == "obs"
NEXT_OBS == "new_obs"
ACTIONS_COL == "actions"
INFOS == "infos"
T == "t"
DEFAULT_POLICY_ID == "default_policy"
\* a module id other than DEFAULT_POLICY_ID
OTHER_MODULE_ID == "p1"

----------------------------------------------------------------------------
(* DQNRainbowRLModule *)

Configs ==
    [dueling : BOOLEAN, noisy : BOOLEAN, num_atoms : 1..MaxAtoms]

\* setup(), lines 42-44: the support of the distribution
SetupSupport(cfg) ==
    IF cfg.num_atoms > 1 THEN {"v_min", "v_max"} ELSE {}

\* a slip of lines 47-51: the test on uses_noisy inverted
SetupEpsilon_WhenNoisy(cfg) ==
    IF cfg.noisy THEN {"epsilon_schedule"} ELSE {}

\* setup(), lines 47-51: the epsilon-greedy schedule
SetupEpsilon(cfg) ==
    IF ~cfg.noisy THEN {"epsilon_schedule"} ELSE {}

\* a slip of lines 57-68: the target value head built without the dueling test
SetupNetworks_ValueTargetAlways(cfg) ==
    {"encoder", "target_encoder", "af"}
        \cup (IF cfg.dueling THEN {"vf"} ELSE {})
        \cup {"af_target", "vf_target"}

\* setup(), lines 57-68: encoders and heads, online and target
SetupNetworks(cfg) ==
    {"encoder", "target_encoder", "af"}
        \cup (IF cfg.dueling THEN {"vf"} ELSE {})
        \cup {"af_target"}
        \cup (IF cfg.dueling THEN {"vf_target"} ELSE {})

\* a slip of lines 71-74: the target value head left trainable
SetupFrozen_SkipsValueTarget(cfg) ==
    {"target_encoder", "af_target"}

\* setup(), lines 71-74: the components whose trainable is set to False
SetupFrozen(cfg) ==
    {"target_encoder", "af_target"}
        \cup (IF cfg.dueling THEN {"vf_target"} ELSE {})

\* a slip of lines 119-133: the test num_atoms > 1 written num_atoms >= 1
OutputSpecsTrain_FromOneAtom(num_atoms) ==
    <<QF_PREDS, QF_TARGET_NEXT_PREDS>>
        \o (IF num_atoms >= 1
            THEN <<ATOMS, QF_LOGITS, QF_TARGET_NEXT_PROBS>>
            ELSE <<>>)

\* output_specs_train(), lines 119-133
OutputSpecsTrain(num_atoms) ==
    <<QF_PREDS, QF_TARGET_NEXT_PREDS>>
        \o (IF num_atoms > 1
            THEN <<ATOMS, QF_LOGITS, QF_TARGET_NEXT_PROBS>>
            ELSE <<>>)

NoRet == [method |-> "none", value |-> <<>>]

IsSetUp == "action_dist_cls" \in attrs

\* a module built from any configuration, setup() not yet run; no connector call
InitModule ==
    /\ config \in Configs
    /\ attrs = {}
    /\ frozen = {}
    /\ ret = NoRet
    /\ data = [kind |-> "dict", items |-> <<>>, keys |-> <<>>, vals |-> <<>>]
    /\ in_data = data
    /\ shared_data = {}
    /\ rl_module = [marl |-> FALSE, ids |-> {}]
    /\ is_multi_agent = FALSE
    /\ err = "none"

Setup ==
    /\ ~IsSetUp
    /\ attrs' = {"is_dueling", "uses_noisy", "num_atoms"}
                    \cup SetupSupport(config)
                    \cup SetupEpsilon(config)
                    \cup SetupNetworks(config)
                    \cup {"action_dist_cls"}
    /\ frozen' = SetupFrozen(config)
    /\ UNCHANGED <<config, ret>>
    /\ UNCHANGED connectorVars

\* get_initial_state(), lines 90-92
GetInitialState ==
    /\ IsSetUp
    /\ ret' = [method |-> "get_initial_state", value |-> <<>>]
    /\ UNCHANGED <<config, attrs, frozen>>
    /\ UNCHANGED connectorVars

\* input_specs_exploration(), lines 94-96
InputSpecsExploration ==
    /\ IsSetUp
    /\ ret' = [method |-> "input_specs_exploration", value |-> <<OBS, T>>]
    /\ UNCHANGED <<config, attrs, frozen>>
    /\ UNCHANGED connectorVars

\* input_specs_inference(), lines 98-100
InputSpecsInference ==
    /\ IsSetUp
    /\ ret' = [method |-> "input_specs_inference", value |-> <<OBS>>]
    /\ UNCHANGED <<config, attrs, frozen>>
    /\ UNCHANGED connectorVars

\* input_specs_train(), lines 102-108
InputSpecsTrain ==
    /\ IsSetUp
    /\ ret' = [method |-> "input_specs_train", value |-> <<OBS, ACTIONS_COL, NEXT_OBS>>]
    /\ UNCHANGED <<config, attrs, frozen>>
    /\ UNCHANGED connectorVars

\* output_specs_exploration(), lines 110-112
OutputSpecsExploration ==
    /\ IsSetUp
    /\ ret' = [method |-> "output_specs_exploration", value |-> <<ACTIONS_COL>>]
    /\ UNCHANGED <<config, attrs, frozen>>
    /\ UNCHANGED connectorVars

\* output_specs_inference(), lines 114-116
OutputSpecsInference ==
    /\ IsSetUp
    /\ ret' = [method |-> "output_specs_inference", value |-> <<ACTIONS_COL>>]
    /\ UNCHANGED <<config, attrs, frozen>>
    /\ UNCHANGED connectorVars

\* output_specs_train(), lines 118-133
CallOutputSpecsTrain ==
    /\ IsSetUp
    /\ ret' = [method |-> "output_specs_train", value |-> OutputSpecsTrain(config.num_atoms)]
    /\ UNCHANGED <<config, attrs, frozen>>
    /\ UNCHANGED connectorVars

NextModule ==
    \/ Setup
    \/ GetInitialState
    \/ InputSpecsExploration
    \/ InputSpecsInference
    \/ InputSpecsTrain
    \/ OutputSpecsExploration
    \/ OutputSpecsInference
    \/ CallOutputSpecsTrain

----------------------------------------------------------------------------
(* Python values: lists, batched arrays and dicts (insertion-ordered). *)

\* a list of individual items
List(s) == [kind |-> "list", items |-> s, keys |-> <<>>, vals |-> <<>>]

\* batch(list_of_items): one batched value that holds the items in order
Batch(s) == [kind |-> "batch", items |-> s, keys |-> <<>>, vals |-> <<>>]

\* a dict, its keys in insertion order and vals[i] the value under keys[i]
Dict(ks, vs) == [kind |-> "dict", items |-> <<>>, keys |-> ks, vals |-> vs]

\* a column name or module id used as a dict key
ColKey(name) == [col |-> name, eps |-> 0]

\* the 1-tuple (eps_id,) used as a dict key
EpsKey(e) == [col |-> "", eps |-> e]

IsEpsKey(k) == k.col = ""

Has(d, k) == \E i \in 1..Len(d.keys) : d.keys[i] = k

Index(d, k) == CHOOSE i \in 1..Len(d.keys) : d.keys[i] = k

Get(d, k) == d.vals[Index(d, k)]

\* d[k] = v: an existing key keeps its position, a new key goes last
Put(d, k, v) ==
    IF Has(d, k)
    THEN [d EXCEPT !.vals[Index(d, k)] = v]
    ELSE [d EXCEPT !.keys = Append(@, k), !.vals = Append(@, v)]

\* d.pop(k), the dict that is left
Pop(d, k) ==
    LET keep == {i \in 1..Len(d.keys) : d.keys[i] # k}
        pos(j) == CHOOSE i \in keep : Cardinality({h \in keep : h < i}) = j - 1
    IN  [d EXCEPT !.keys = [j \in 1..Cardinality(keep) |-> d.keys[pos(j)]],
                  !.vals = [j \in 1..Cardinality(keep) |-> d.vals[pos(j)]]]

KeySet(d) == {d.keys[i] : i \in 1..Len(d.keys)}

----------------------------------------------------------------------------
(* BatchIndividualItems.__call__ *)

MEMORIZED_MAP_STRUCTURE == "memorized_map_structure"

\* a slip of lines 36-39: the test col != INFOS left out
BatchModuleData_WithInfos(module_data) ==
    [module_data EXCEPT !.vals =
        [i \in 1..Len(module_data.vals) |->
            IF module_data.vals[i].kind = "list"
            THEN Batch(module_data.vals[i].items)
            ELSE module_data.vals[i]]]

\* lines 36-39: batch every list of the module's sub-dict except INFOS, in place
BatchModuleData(module_data) ==
    [module_data EXCEPT !.vals =
        [i \in 1..Len(module_data.vals) |->
            IF module_data.vals[i].kind = "list"
                   /\ module_data.keys[i] # ColKey(INFOS)
            THEN Batch(module_data.vals[i].items)
            ELSE module_data.vals[i]]]

\* lines 52-58: the items of the per-episode lists, in the order the dict
\* iterates its keys
RECURSIVE ListToBeBatched(_, _)
ListToBeBatched(column_data, i) ==
    IF i > Len(column_data.keys)
    THEN <<>>
    ELSE column_data.vals[i].items \o ListToBeBatched(column_data, i + 1)

\* lines 51-57: one eps_id per item, recorded for the OBS column only
RECURSIVE MemorizedMapStructure(_, _, _)
MemorizedMapStructure(column, column_data, i) ==
    IF i > Len(column_data.keys)
    THEN <<>>
    ELSE (IF column = ColKey(OBS)
          THEN [j \in 1..Len(column_data.vals[i].items) |-> column_data.keys[i].eps]
          ELSE <<>>)
         \o MemorizedMapStructure(column, column_data, i + 1)

\* lines 60-64: INFOS stays a list, every other column is batched
BatchedColumn(column, list_to_be_batched) ==
    IF column = ColKey(INFOS)
    THEN List(list_to_be_batched)
    ELSE Batch(list_to_be_batched)

\* a slip of lines 70-72: the structure stored for every column
RecordStructure_EveryColumn(shared, column, memorized_map_structure) ==
    {kv \in shared : kv[1] # MEMORIZED_MAP_STRUCTURE}
        \cup {<<MEMORIZED_MAP_STRUCTURE, memorized_map_structure>>}

\* lines 70-72: the structure is stored for the OBS column only
RecordStructure(shared, column, memorized_map_structure) ==
    IF column = ColKey(OBS)
    THEN {kv \in shared : kv[1] # MEMORIZED_MAP_STRUCTURE}
             \cup {<<MEMORIZED_MAP_STRUCTURE, memorized_map_structure>>}
    ELSE shared

\* the state of the call when `exception` is raised
Raise(st, exception) == [st EXCEPT !.err = exception]

\* a slip of lines 65-68: data[column] read instead of popped
MoveToDefaultPolicy_KeepsColumn(st, column) ==
    LET dp == ColKey(DEFAULT_POLICY_ID)
        d2 == IF ~Has(st.data, dp) THEN Put(st.data, dp, Dict(<<>>, <<>>)) ELSE st.data
    IN  IF Get(d2, dp).kind # "dict"
        THEN [st EXCEPT !.data = d2, !.err = "TypeError"]
        ELSE [st EXCEPT !.data = Put(d2, dp, Put(Get(d2, dp), column, Get(d2, column)))]

\* lines 65-68: with a multi-agent module, move the column under
\* DEFAULT_POLICY_ID. The right-hand side data.pop(column) is evaluated
\* before the target data[DEFAULT_POLICY_ID].
MoveToDefaultPolicy(st, column) ==
    LET dp == ColKey(DEFAULT_POLICY_ID)
        d2 == IF ~Has(st.data, dp) THEN Put(st.data, dp, Dict(<<>>, <<>>)) ELSE st.data
        popped == Get(d2, column)
        d3 == Pop(d2, column)
    IN  IF ~Has(d3, dp)
        THEN [st EXCEPT !.data = d3, !.err = "KeyError"]
        ELSE IF Get(d3, dp).kind # "dict"
        THEN [st EXCEPT !.data = d3, !.err = "TypeError"]
        ELSE [st EXCEPT !.data = Put(d3, dp, Put(Get(d3, dp), column, popped))]

\* lines 49-72: a dict under `column` that maps (eps_id,) to lists of items
SingleAgentColumn(st, column, column_data, module) ==
    IF column_data.kind # "dict"
    THEN Raise(st, "AttributeError")
    ELSE IF \E i \in 1..Len(column_data.keys) : ~IsEpsKey(column_data.keys[i])
    THEN Raise(st, "ValueError")
    ELSE
        LET list_to_be_batched == ListToBeBatched(column_data, 1)
            memorized_map_structure == MemorizedMapStructure(column, column_data, 1)
            s1 == [st EXCEPT !.data =
                       Put(@, column, BatchedColumn(column, list_to_be_batched))]
            s2 == IF module.marl THEN MoveToDefaultPolicy(s1, column) ELSE s1
        IN  IF s2.err # "ok"
            THEN s2
            ELSE [s2 EXCEPT !.shared =
                      RecordStructure(@, column, memorized_map_structure)]

\* a slip of lines 49 and 78-79: the dict branch taken for every kind of episode
ProcessColumn_NoMultiAgentTest(st, column, module, multi) ==
    LET column_data == Get(st.data, column)
    IN  IF module.marl /\ column.col \in module.ids
        THEN IF ~multi
             THEN Raise(st, "AssertionError")
             ELSE IF column_data.kind # "dict"
             THEN Raise(st, "AttributeError")
             ELSE [st EXCEPT !.data = Put(@, column, BatchModuleData(column_data))]
        ELSE IF column_data.kind = "list"
        THEN [st EXCEPT !.data = Put(@, column, Batch(column_data.items))]
        ELSE SingleAgentColumn(st, column, column_data, module)

\* lines 34-79: one iteration of the loop. data[column] is still the object
\* the copy of line 29 holds: no iteration rebinds or pops another column.
ProcessColumn(st, column, module, multi) ==
    LET column_data == Get(st.data, column)
    IN  IF module.marl /\ column.col \in module.ids
        THEN IF ~multi
             THEN Raise(st, "AssertionError")
             ELSE IF column_data.kind # "dict"
             THEN Raise(st, "AttributeError")
             ELSE [st EXCEPT !.data = Put(@, column, BatchModuleData(column_data))]
        ELSE IF column_data.kind = "list"
        THEN [st EXCEPT !.data = Put(@, column, Batch(column_data.items))]
        ELSE IF ~multi
        THEN SingleAgentColumn(st, column, column_data, module)
        ELSE Raise(st, "NotImplementedError")

\* line 29: the loop over data.copy().items(); an exception ends it
RECURSIVE ProcessColumns(_, _, _, _, _)
ProcessColumns(st, columns, i, module, multi) ==
    IF i > Len(columns) \/ st.err # "ok"
    THEN st
    ELSE ProcessColumns(ProcessColumn(st, columns[i], module, multi),
                        columns, i + 1, module, multi)

\* lines 25-81
CallResult(d, shared, module, multi) ==
    ProcessColumns([data |-> d, shared |-> shared, err |-> "ok"],
                   d.keys, 1, module, multi)

----------------------------------------------------------------------------
(* The inputs of __call__ *)

\* the items of episode e (0: of a list that belongs to no episode), each
\* item told from every other by the episode and its place in the episode
Items(e, n) == [i \in 1..n |-> <<e, i>>]

\* the orders in which the episodes' keys can have been inserted
EpsOrders ==
    {o \in UNION {[1..n -> 1..MaxEps] : n \in 1..MaxEps} :
        \A i, j \in DOMAIN o : i # j => o[i] # o[j]}

EpsLens == [1..MaxEps -> 1..MaxLen]

\* column -> (eps_id,) -> list of items
EpsDict(order, lens) ==
    Dict([i \in DOMAIN order |-> EpsKey(order[i])],
         [i \in DOMAIN order |-> List(Items(order[i], lens[order[i]]))])

\* module_id -> column -> list of items (or an already batched value)
ModuleDicts ==
    << Dict(<<ColKey(OBS)>>, <<List(Items(0, MaxLen))>>),
       Dict(<<ColKey(OBS)>>, <<Batch(Items(0, MaxLen))>>),
       Dict(<<ColKey(OBS), ColKey(INFOS)>>,
            <<List(Items(0, MaxLen)), List(Items(0, MaxLen))>>),
       Dict(<<ColKey(OBS), ColKey(INFOS)>>,
            <<Batch(Items(0, MaxLen)), List(Items(0, MaxLen))>>) >>

\* the values a top-level column of `data` can hold
ColumnValues(name, order, lens) ==
    IF name = DEFAULT_POLICY_ID
    THEN ModuleDicts \o <<EpsDict(order, lens)>>
    ELSE <<List(Items(0, MaxLen)), EpsDict(order, lens)>>

ColumnNames == {OBS, INFOS, DEFAULT_POLICY_ID}

ColumnOrders ==
    {o \in UNION {[1..n -> ColumnNames] : n \in 0..Cardinality(ColumnNames)} :
        \A i, j \in DOMAIN o : i # j => o[i] # o[j]}

\* `data`: the columns `names`, in this order, column i holding the pick[i]-th
\* of its possible values
DataInput(names, pick, order, lens) ==
    Dict([i \in DOMAIN names |-> ColKey(names[i])],
         [i \in DOMAIN names |-> ColumnValues(names[i], order, lens)[pick[i]]])

Picks(names) ==
    {p \in [DOMAIN names -> 1..(Len(ModuleDicts) + 1)] :
        \A i \in DOMAIN names : p[i] <= Len(ColumnValues(names[i], <<>>, <<>>))}

\* a plain RLModule, or a MultiAgentRLModule and its module ids
Modules ==
    {[marl |-> FALSE, ids |-> {}],
     [marl |-> TRUE, ids |-> {DEFAULT_POLICY_ID}],
     [marl |-> TRUE, ids |-> {OTHER_MODULE_ID}]}

\* the arguments of one call; no RL module under construction
Init ==
    /\ \E names \in ColumnOrders, order \in EpsOrders, lens \in EpsLens :
           \E pick \in Picks(names) :
               data = DataInput(names, pick, order, lens)
    /\ in_data = data
    /\ shared_data = {}
    /\ rl_module \in Modules
    /\ is_multi_agent \in BOOLEAN
    /\ err = "none"
    /\ config = [dueling |-> FALSE, noisy |-> FALSE, num_atoms |-> 1]
    /\ attrs = {}
    /\ frozen = {}
    /\ ret = NoRet

Call ==
    /\ err = "none"
    /\ LET st == CallResult(data, shared_data, rl_module, is_multi_agent)
       IN  /\ data' = st.data
           /\ shared_data' = st.shared
           /\ err' = st.err
    /\ UNCHANGED <<in_data, rl_module, is_multi_agent>>
    /\ UNCHANGED moduleVars

Next == Call

Spec == Init /\ [][Next]_vars

SpecModule == InitModule /\ [][NextModule]_vars

----------------------------------------------------------------------------
(* Properties of DQNRainbowRLModule, checked under SpecModule *)

Range(s) == {s[i] : i \in 1..Len(s)}

DistributionalKeys == {ATOMS, QF_LOGITS, QF_TARGET_NEXT_PROBS}

TargetComponents == {"target_encoder", "af_target", "vf_target"}

OnlineComponents == {"encoder", "af", "vf"}

\* C1: output_specs_train() always holds QF_PREDS and QF_TARGET_NEXT_PREDS; it
\* holds ATOMS, QF_LOGITS and QF_TARGET_NEXT_PROBS if and only if
\* num_atoms > 1, and none of the three when num_atoms <= 1.
C1_OutputSpecsTrainKeys ==
    ret.method = "output_specs_train" =>
        /\ {QF_PREDS, QF_TARGET_NEXT_PREDS} \subseteq Range(ret.value)
        /\ \A k \in DistributionalKeys :
               k \in Range(ret.value) <=> config.num_atoms > 1

C1_Witness ==
    /\ ret.method = "output_specs_train"
    /\ config.num_atoms > 1
    /\ DistributionalKeys \subseteq Range(ret.value)

\* C4: after setup() every target component that exists has trainable = False,
\* and setup() sets trainable = False on none of encoder, af, vf.
C4_TargetsNotTrainable ==
    IsSetUp =>
        /\ \A c \in TargetComponents \cap attrs : c \in frozen
        /\ frozen \cap OnlineComponents = {}

C4_Witness ==
    /\ IsSetUp
    /\ config.dueling
    /\ TargetComponents \subseteq attrs
    /\ frozen = TargetComponents

\* C5: after setup() vf and vf_target exist if and only if dueling is set, and
\* exist together; encoder, target_encoder, af and af_target always exist.
C5_ValueStreamIffDueling ==
    IsSetUp =>
        /\ "vf" \in attrs <=> config.dueling
        /\ "vf" \in attrs <=> "vf_target" \in attrs
        /\ {"encoder", "target_encoder", "af", "af_target"} \subseteq attrs

C5_Witness ==
    /\ IsSetUp
    /\ ~config.dueling
    /\ "vf" \notin attrs
    /\ "af_target" \in attrs

\* C6: after setup() epsilon_schedule exists if and only if noisy layers are
\* not used, and v_min and v_max are set if and only if num_atoms > 1,
\* whatever the other settings are.
C6_EpsilonAndSupport ==
    IsSetUp =>
        /\ "epsilon_schedule" \in attrs <=> ~config.noisy
        /\ "v_min" \in attrs <=> config.num_atoms > 1
        /\ "v_max" \in attrs <=> config.num_atoms > 1

C6_Witness ==
    /\ IsSetUp
    /\ config.noisy
    /\ config.dueling
    /\ config.num_atoms > 1
    /\ "epsilon_schedule" \notin attrs
    /\ {"v_min", "v_max"} \subseteq attrs

----------------------------------------------------------------------------
(* Properties of BatchIndividualItems.__call__, checked under Spec *)

Called == err # "none"

Returned == err = "ok"

DP == ColKey(DEFAULT_POLICY_ID)

IsModuleId(column) == rl_module.marl /\ column.col \in rl_module.ids

\* the top-level columns of the input that hold a dict / a list
DictColumns == {c \in KeySet(in_data) : Get(in_data, c).kind = "dict"}

ListColumns == {c \in KeySet(in_data) : Get(in_data, c).kind = "list"}

\* every INFOS entry of d is a plain list
InfosIsList(d) == Has(d, ColKey(INFOS)) => Get(d, ColKey(INFOS)).kind = "list"

\* C2: the INFOS entry of the returned data is a plain list, whether INFOS was
\* a list directly under INFOS, a dict of eps_id -> list, or a list inside a
\* module's sub-dict.
C2_InfosNeverBatched ==
    Returned =>
        /\ InfosIsList(data)
        /\ \A c \in KeySet(data) :
               Get(data, c).kind = "dict" => InfosIsList(Get(data, c))

\* the per-episode lists of column_data joined in ascending eps_id order
RECURSIVE AscendingConcat(_, _)
AscendingConcat(column_data, e) ==
    IF e > MaxEps
    THEN <<>>
    ELSE (IF Has(column_data, EpsKey(e))
          THEN Get(column_data, EpsKey(e)).items
          ELSE <<>>)
         \o AscendingConcat(column_data, e + 1)

\* where a single-agent dict column is found after the call
ResultColumn(column) ==
    IF rl_module.marl THEN Get(Get(data, DP), column) ELSE Get(data, column)

SingleAgentReturned ==
    /\ ~is_multi_agent
    /\ Returned
    /\ (rl_module.marl => ~Has(in_data, DP))

\* C3: in the single-agent case the items of a dict column are the
\* per-episode lists joined in ascending eps_id order, whatever the order in
\* which the keys were inserted.
C3_JoinedInAscendingEpsId ==
    SingleAgentReturned =>
        \A c \in DictColumns :
            ResultColumn(c).items = AscendingConcat(Get(in_data, c), 1)

\* the items of `items` at the positions where m holds e
ItemsOfEpisode(items, m, e) ==
    LET FromE(i) == m[i] = e
        idx == SelectSeq([i \in 1..Len(m) |-> i], FromE)
    IN  [k \in 1..Len(idx) |-> items[idx[k]]]

MapStructures == {kv[2] : kv \in {x \in shared_data : x[1] = MEMORIZED_MAP_STRUCTURE}}

\* C8: in the single-agent case with a dict under OBS,
\* shared_data["memorized_map_structure"] has one entry per item of the batched
\* OBS column, the i-th being the eps_id of the episode the i-th item came
\* from; without a dict under OBS, shared_data is left as it was.
C8_MemorizedMapStructure ==
    /\ (SingleAgentReturned /\ ColKey(OBS) \in DictColumns) =>
           /\ Cardinality(shared_data) = 1
           /\ \A m \in MapStructures :
                  LET obs == ResultColumn(ColKey(OBS)).items
                      column_data == Get(in_data, ColKey(OBS))
                  IN  /\ Cardinality(MapStructures) = 1
                      /\ Len(m) = Len(obs)
                      /\ \A i \in 1..Len(m) : Has(column_data, EpsKey(m[i]))
                      /\ \A k \in KeySet(column_data) :
                             ItemsOfEpisode(obs, m, k.eps) = Get(column_data, k).items
    /\ (Called /\ ColKey(OBS) \notin DictColumns) => shared_data = {}

C8_Witness ==
    /\ SingleAgentReturned
    /\ ColKey(OBS) \in DictColumns
    /\ ColKey(INFOS) \in DictColumns
    /\ in_data.keys[1] = ColKey(OBS)
    /\ Len(Get(in_data, ColKey(OBS)).keys) = 2
    /\ <<MEMORIZED_MAP_STRUCTURE, <<2, 1, 1>>>> \in shared_data

\* C7: with multi-agent episodes, a column that is neither a list nor a module
\* id of a multi-agent module makes the call raise NotImplementedError; when
\* every column is a list or such a module id, the call returns.
C7_MultiAgentNotImplemented ==
    (is_multi_agent /\ Called) =>
        IF \E c \in KeySet(in_data) : Get(in_data, c).kind # "list" /\ ~IsModuleId(c)
        THEN err = "NotImplementedError"
        ELSE err = "ok"

C7_Witness ==
    /\ is_multi_agent
    /\ rl_module.marl
    /\ err = "NotImplementedError"
    /\ Len(in_data.keys) = 3
    /\ IsModuleId(in_data.keys[1])

SubDictBatched(before, after) ==
    /\ after.kind = "dict"
    /\ after.keys = before.keys
    /\ \A i \in 1..Len(before.keys) :
           IF before.vals[i].kind = "list" /\ before.keys[i] # ColKey(INFOS)
           THEN after.vals[i] = Batch(before.vals[i].items)
           ELSE after.vals[i] = before.vals[i]

ModuleColumns == {c \in KeySet(in_data) : IsModuleId(c)}

====
